---- MODULE Spec2Model ----
(***************************************************************************)
(* Model of the search core of Chess.py: evaluate_board, minimax (with     *)
(* alpha-beta pruning) and get_best_move, run against a position oracle.   *)
(*                                                                         *)
(* The oracle (python-chess in the program) is modelled by chess on one    *)
(* file of BoardLen squares with pawns and queens: it supplies turn,       *)
(* legal_moves (a stable enumeration), push, pop, is_game_over and pieces. *)
(* The recursion of minimax / get_best_move is an explicit stack of call   *)
(* frames; every statement of the two functions that touches the board or  *)
(* the frame is one action.                                                *)
(***************************************************************************)
EXTENDS Integers, Sequences, FiniteSets, TLC

VARIABLES board, frames, call, result, nodes

vars == <<board, frames, call, result, nodes>>

(***************************************************************************)
(* Bounds                                                                  *)
(***************************************************************************)
BoardLen == 4
MaxPieces == 3
MaxDepth == 3
MaxUnder == 2

(***************************************************************************)
(* Program constants                                                       *)
(***************************************************************************)
PAWN == 1
QUEEN == 5
NumPieceTypes == 6
WHITE == TRUE
BLACK == FALSE
\* float('inf'): larger than every score a board of this size can have
PosInf == 1000
NegInf == -PosInf

Squares == 1..BoardLen
Max(a, b) == IF a >= b THEN a ELSE b
Min(a, b) == IF a <= b THEN a ELSE b

(***************************************************************************)
(* The position oracle                                                     *)
(***************************************************************************)
\* a cell holds 0 (empty), +t (white piece of type t) or -t (black piece)
Sign(color) == IF color THEN 1 ELSE -1
CellOf(piece_type, color) == Sign(color) * piece_type
IsOwn(cells, sq, color) == cells[sq] * Sign(color) > 0
LastRank(color) == IF color THEN BoardLen ELSE 1

NoMove == [from_square |-> 0, to_square |-> 0, promotion |-> 0]

\* board.pieces(piece_type, color): the squares holding such a piece
pieces(b, piece_type, color) ==
    {sq \in Squares : b.cells[sq] = CellOf(piece_type, color)}

Between(a, b) == {s \in Squares : Min(a, b) < s /\ s < Max(a, b)}

PawnMoves(b) ==
    {[from_square |-> sq, to_square |-> sq + Sign(b.turn),
      promotion |-> IF sq + Sign(b.turn) = LastRank(b.turn) THEN QUEEN ELSE 0] :
        sq \in {s \in pieces(b, PAWN, b.turn) :
                   /\ s + Sign(b.turn) \in Squares
                   /\ b.cells[s + Sign(b.turn)] = 0}}

QueenMoves(b) ==
    {[from_square |-> m[1], to_square |-> m[2], promotion |-> 0] :
        m \in {p \in pieces(b, QUEEN, b.turn) \X Squares :
                   /\ p[1] # p[2]
                   /\ ~IsOwn(b.cells, p[2], b.turn)
                   /\ \A s \in Between(p[1], p[2]) : b.cells[s] = 0}}

LegalMoveSet(b) == PawnMoves(b) \cup QueenMoves(b)

MoveKey(m) == m.from_square * (BoardLen + 1) + m.to_square

RECURSIVE InOrder(_)
InOrder(S) ==
    IF S = {} THEN <<>>
    ELSE LET m == CHOOSE x \in S : \A y \in S : MoveKey(x) <= MoveKey(y)
         IN  <<m>> \o InOrder(S \ {m})

\* list(board.legal_moves): the oracle's enumeration, in a stable order
legal_moves(b) == InOrder(LegalMoveSet(b))

HasPieces(b, color) == \E sq \in Squares : IsOwn(b.cells, sq, color)

\* board.is_game_over(): the side to move has no legal move, or one side has
\* nothing left to play with (then legal moves may still exist)
is_game_over(b) ==
    \/ LegalMoveSet(b) = {}
    \/ ~HasPieces(b, WHITE)
    \/ ~HasPieces(b, BLACK)

\* board.push(move): plays the move in place and records how to undo it
BoardPush(b, m) ==
    [cells |-> [sq \in Squares |->
                   IF sq = m.from_square THEN 0
                   ELSE IF sq = m.to_square
                        THEN (IF m.promotion # 0
                              THEN CellOf(m.promotion, b.turn)
                              ELSE b.cells[m.from_square])
                        ELSE b.cells[sq]],
     turn |-> ~b.turn,
     move_stack |-> Append(b.move_stack, m),
     state_stack |-> Append(b.state_stack, [cells |-> b.cells, turn |-> b.turn])]

BoardPopKeepsTurn(b) ==
    [cells |-> b.state_stack[Len(b.state_stack)].cells,
     turn |-> b.turn,
     move_stack |-> SubSeq(b.move_stack, 1, Len(b.move_stack) - 1),
     state_stack |-> SubSeq(b.state_stack, 1, Len(b.state_stack) - 1)]

BoardPopKeepsMove(b) ==
    [cells |-> b.state_stack[Len(b.state_stack)].cells,
     turn |-> b.state_stack[Len(b.state_stack)].turn,
     move_stack |-> b.move_stack,
     state_stack |-> SubSeq(b.state_stack, 1, Len(b.state_stack) - 1)]

\* board.pop(): undoes the most recently pushed move
BoardPop(b) ==
    [cells |-> b.state_stack[Len(b.state_stack)].cells,
     turn |-> b.state_stack[Len(b.state_stack)].turn,
     move_stack |-> SubSeq(b.move_stack, 1, Len(b.move_stack) - 1),
     state_stack |-> SubSeq(b.state_stack, 1, Len(b.state_stack) - 1)]

(***************************************************************************)
(* evaluate_board                                                          *)
(***************************************************************************)
RECURSIVE EvalFrom(_, _)
EvalFrom(b, piece_type) ==
    IF piece_type > NumPieceTypes THEN 0
    ELSE Cardinality(pieces(b, piece_type, WHITE))
           - Cardinality(pieces(b, piece_type, BLACK))
           + EvalFrom(b, piece_type + 1)

evaluate_board(b) == EvalFrom(b, 1)

(***************************************************************************)
(* The statements of minimax and get_best_move                             *)
(***************************************************************************)
IsTerminalDepthOnly(b, depth) == depth = 0

\* line 40: depth == 0 or board.is_game_over()
IsTerminal(b, depth) == depth = 0 \/ is_game_over(b)

\* line 45
InitBestEval(is_maximizing) == IF is_maximizing THEN NegInf ELSE PosInf

\* lines 52-57
UpdateBest(best_eval, eval, is_maximizing) ==
    IF is_maximizing THEN Max(best_eval, eval) ELSE Min(best_eval, eval)
UpdateAlpha(alpha, eval, is_maximizing) ==
    IF is_maximizing THEN Max(alpha, eval) ELSE alpha
UpdateBeta(beta, eval, is_maximizing) ==
    IF is_maximizing THEN beta ELSE Min(beta, eval)

CutoffInverted(alpha, beta) == alpha <= beta

CutoffStrict(alpha, beta) == beta < alpha

\* line 59
Cutoff(alpha, beta) == beta <= alpha

\* line 49: the flag handed to the recursive call
ChildFlag(is_maximizing) == ~is_maximizing

\* line 71: the flag handed to minimax, read from the board after the push
RootChildFlag(pushed) == ~pushed.turn

BestValueInitZero(turn) == 0

\* line 67
BestValueInit(turn) == IF turn THEN NegInf ELSE PosInf

ImprovesOrTies(turn, board_value, best_value) ==
    (turn /\ board_value >= best_value) \/ (~turn /\ board_value <= best_value)

\* line 74
Improves(turn, board_value, best_value) ==
    (turn /\ board_value > best_value) \/ (~turn /\ board_value < best_value)

(***************************************************************************)
(* Call frames                                                             *)
(***************************************************************************)
Frame(fn, depth, alpha, beta, is_maximizing, moves, best, pc) ==
    [fn |-> fn, depth |-> depth, alpha |-> alpha, beta |-> beta,
     is_maximizing |-> is_maximizing, legal_moves |-> moves, i |-> 1,
     best_eval |-> best, best_move |-> NoMove, eval |-> 0, pc |-> pc,
     alpha_in |-> alpha, beta_in |-> beta]

MinimaxFrame(depth, alpha, beta, is_maximizing) ==
    Frame("minimax", depth, alpha, beta, is_maximizing, <<>>, 0, "start")

Top == frames[Len(frames)]
SetTop(f) == [frames EXCEPT ![Len(frames)] = f]
CurMove(f) == f.legal_moves[f.i]

NoCall == [fn |-> "none", depth |-> 0, alpha |-> 0, beta |-> 0,
           is_maximizing |-> FALSE, board |-> board]
NoResult == [returned |-> FALSE, value |-> 0, move |-> NoMove]

\* the return statement of the top frame: the value goes to the caller's
\* eval / board_value, or to the outside caller when the frame is the root
Return(value, move) ==
    IF Len(frames) = 1
    THEN /\ frames' = <<>>
         /\ result' = [returned |-> TRUE, value |-> value, move |-> move]
    ELSE /\ frames' = [SubSeq(frames, 1, Len(frames) - 1)
                          EXCEPT ![Len(frames) - 1].eval = value,
                                 ![Len(frames) - 1].pc = "pop"]
         /\ UNCHANGED result

(***************************************************************************)
(* Initial states: any position of the oracle, nothing called yet          *)
(***************************************************************************)
CellValues == {CellOf(PAWN, WHITE), CellOf(PAWN, BLACK),
               CellOf(QUEEN, WHITE), CellOf(QUEEN, BLACK), 0}

ValidCells(cells) ==
    /\ Cardinality({sq \in Squares : cells[sq] # 0}) <= MaxPieces
    /\ \A color \in BOOLEAN :
          /\ cells[LastRank(color)] # CellOf(PAWN, color)
          /\ cells[LastRank(~color)] # CellOf(PAWN, color)

Positions ==
    {[cells |-> c, turn |-> t, move_stack |-> <<>>, state_stack |-> <<>>] :
        c \in {x \in [Squares -> CellValues] : ValidCells(x)}, t \in BOOLEAN}

Windows == {NegInf, 0} \X {0, PosInf}

Init ==
    /\ board \in Positions
    /\ frames = <<>>
    /\ call = NoCall
    /\ result = NoResult
    /\ nodes = 0

(***************************************************************************)
(* Entry points                                                            *)
(***************************************************************************)
\* get_best_move(board, depth), lines 65-69
CallGetBestMove(depth) ==
    /\ call.fn = "none"
    /\ call' = [fn |-> "get_best_move", depth |-> depth, alpha |-> 0, beta |-> 0,
                is_maximizing |-> FALSE, board |-> board]
    /\ frames' = <<Frame("get_best_move", depth, 0, 0, FALSE,
                         legal_moves(board), BestValueInit(board.turn), "loop")>>
    /\ UNCHANGED <<board, result, nodes>>

\* minimax(board, depth, alpha, beta, is_maximizing) called from outside
CallMinimax(depth, alpha, beta, is_maximizing) ==
    /\ call.fn = "none"
    /\ call' = [fn |-> "minimax", depth |-> depth, alpha |-> alpha, beta |-> beta,
                is_maximizing |-> is_maximizing, board |-> board]
    /\ frames' = <<MinimaxFrame(depth, alpha, beta, is_maximizing)>>
    /\ nodes' = 1
    /\ UNCHANGED <<board, result>>

(***************************************************************************)
(* minimax, lines 39-62                                                    *)
(***************************************************************************)
AtMinimax(pc) == frames # <<>> /\ Top.fn = "minimax" /\ Top.pc = pc

\* lines 40-41
MinimaxBase ==
    /\ AtMinimax("start")
    /\ IsTerminal(board, Top.depth)
    /\ Return(evaluate_board(board), NoMove)
    /\ UNCHANGED <<board, call, nodes>>

\* lines 43-45
MinimaxExpand ==
    /\ AtMinimax("start")
    /\ ~IsTerminal(board, Top.depth)
    /\ frames' = SetTop([Top EXCEPT !.legal_moves = legal_moves(board),
                                    !.best_eval = InitBestEval(Top.is_maximizing),
                                    !.pc = "loop"])
    /\ UNCHANGED <<board, call, result, nodes>>

\* lines 47-49: next move of the loop, board.push(move), the recursive call
MinimaxPush ==
    /\ AtMinimax("loop")
    /\ Top.i <= Len(Top.legal_moves)
    /\ Top.depth > -MaxUnder
    /\ board' = BoardPush(board, CurMove(Top))
    /\ frames' = Append(SetTop([Top EXCEPT !.pc = "wait"]),
                        MinimaxFrame(Top.depth - 1, Top.alpha, Top.beta,
                                     ChildFlag(Top.is_maximizing)))
    /\ nodes' = nodes + 1
    /\ UNCHANGED <<call, result>>

\* lines 50-60: board.pop(), the update of best_eval and the window, the break
MinimaxPop ==
    /\ AtMinimax("pop")
    /\ board' = BoardPop(board)
    /\ LET best == UpdateBest(Top.best_eval, Top.eval, Top.is_maximizing)
           a == UpdateAlpha(Top.alpha, Top.eval, Top.is_maximizing)
           b == UpdateBeta(Top.beta, Top.eval, Top.is_maximizing)
       IN  frames' = SetTop([Top EXCEPT !.best_eval = best, !.alpha = a, !.beta = b,
                                        !.i = IF Cutoff(a, b) THEN @ ELSE @ + 1,
                                        !.pc = IF Cutoff(a, b) THEN "break" ELSE "loop"])
    /\ UNCHANGED <<call, result, nodes>>

\* line 62, after the loop ran out or was broken
MinimaxReturn ==
    /\ \/ AtMinimax("break")
       \/ AtMinimax("loop") /\ Top.i > Len(Top.legal_moves)
    /\ Return(Top.best_eval, NoMove)
    /\ UNCHANGED <<board, call, nodes>>

(***************************************************************************)
(* get_best_move, lines 65-78                                              *)
(***************************************************************************)
AtGetBestMove(pc) == frames # <<>> /\ Top.fn = "get_best_move" /\ Top.pc = pc

\* lines 69-71
GetBestMovePush ==
    /\ AtGetBestMove("loop")
    /\ Top.i <= Len(Top.legal_moves)
    /\ board' = BoardPush(board, CurMove(Top))
    /\ frames' = Append(SetTop([Top EXCEPT !.pc = "wait"]),
                        MinimaxFrame(Top.depth - 1, NegInf, PosInf,
                                     RootChildFlag(board')))
    /\ nodes' = nodes + 1
    /\ UNCHANGED <<call, result>>

\* lines 72-76
GetBestMovePop ==
    /\ AtGetBestMove("pop")
    /\ board' = BoardPop(board)
    /\ LET better == Improves(board'.turn, Top.eval, Top.best_eval)
       IN  frames' = SetTop([Top EXCEPT
                               !.best_eval = IF better THEN Top.eval ELSE @,
                               !.best_move = IF better THEN CurMove(Top) ELSE @,
                               !.i = @ + 1,
                               !.pc = "loop"])
    /\ UNCHANGED <<call, result, nodes>>

\* line 78
GetBestMoveReturn ==
    /\ AtGetBestMove("loop")
    /\ Top.i > Len(Top.legal_moves)
    /\ Return(Top.best_eval, Top.best_move)
    /\ UNCHANGED <<board, call, nodes>>

Next ==
    \/ \E depth \in 0..MaxDepth : CallGetBestMove(depth)
    \/ \E depth \in 0..MaxDepth, w \in Windows, is_maximizing \in BOOLEAN :
          CallMinimax(depth, w[1], w[2], is_maximizing)
    \/ MinimaxBase
    \/ MinimaxExpand
    \/ MinimaxPush
    \/ MinimaxPop
    \/ MinimaxReturn
    \/ GetBestMovePush
    \/ GetBestMovePop
    \/ GetBestMoveReturn

Spec == Init /\ [][Next]_vars


(***************************************************************************)
(* Reference definitions used by the properties                            *)
(***************************************************************************)
SetMax(S) == CHOOSE x \in S : \A y \in S : y <= x
SetMin(S) == CHOOSE x \in S : \A y \in S : x <= y

\* unpruned exhaustive minimax over the oracle's tree
RECURSIVE PlainMinimax(_, _, _)
PlainMinimax(b, depth, is_maximizing) ==
    IF depth = 0 \/ is_game_over(b) THEN evaluate_board(b)
    ELSE LET vals == {PlainMinimax(BoardPush(b, m), depth - 1, ~is_maximizing) :
                         m \in LegalMoveSet(b)}
         IN  IF is_maximizing THEN SetMax(vals) ELSE SetMin(vals)

\* the minimax value when the side actually to move picks its own best reply
TrueMinimax(b, depth) == PlainMinimax(b, depth, b.turn = WHITE)

\* number of nodes of the unpruned tree
RECURSIVE TreeSize(_, _)
RECURSIVE SumSizes(_, _, _)
SumSizes(b, depth, moves) ==
    IF moves = {} THEN 0
    ELSE LET m == CHOOSE x \in moves : TRUE
         IN  TreeSize(BoardPush(b, m), depth) + SumSizes(b, depth, moves \ {m})
TreeSize(b, depth) ==
    IF depth = 0 \/ is_game_over(b) THEN 1
    ELSE 1 + SumSizes(b, depth - 1, LegalMoveSet(b))

Extreme(turn, S) == IF turn = WHITE THEN SetMax(S) ELSE SetMin(S)

ReturnedFrom(fn) == result.returned /\ call.fn = fn
RootMoves == LegalMoveSet(call.board)
FullWindow == call.alpha = NegInf /\ call.beta = PosInf

\* the value of a root move when both sides play their own best replies
RootTrueValue(m) == TrueMinimax(BoardPush(call.board, m), call.depth - 1)

\* the value minimax hands back to get_best_move for a root move: the
\* exhaustive value under the flag get_best_move passes
RootSearchValue(m) ==
    PlainMinimax(BoardPush(call.board, m), call.depth - 1, call.board.turn)

(***************************************************************************)
(* Properties                                                              *)
(***************************************************************************)

\* C1: with at least one legal move and depth >= 1, get_best_move returns a
\* legal root move whose resulting position has the maximal (White at the
\* root) or minimal (Black at the root) depth-1 minimax value, each side
\* below the root picking its own best reply.
C1_BestMoveIsMinimaxOptimal ==
    (ReturnedFrom("get_best_move") /\ call.depth >= 1 /\ RootMoves # {}) =>
        /\ result.move \in RootMoves
        /\ RootTrueValue(result.move)
              = Extreme(call.board.turn, {RootTrueValue(m) : m \in RootMoves})

\* C2: minimax called with the full window returns exactly the value of the
\* unpruned exhaustive minimax with the same depth and maximizing flag.
C2_PruningEquivalence ==
    (ReturnedFrom("minimax") /\ FullWindow) =>
        result.value = PlainMinimax(call.board, call.depth, call.is_maximizing)

\* a full-window minimax call has returned after visiting fewer nodes than
\* the exhaustive tree has
C2_Witness ==
    /\ ReturnedFrom("minimax") /\ FullWindow
    /\ nodes < TreeSize(call.board, call.depth)

\* C3: after minimax or get_best_move returns, the position is exactly the
\* position before the call (placement, side to move, legal moves, history).
C3_PositionRestored ==
    result.returned => board = call.board

\* get_best_move returned after a search in which a cutoff skipped nodes
C3_Witness ==
    /\ ReturnedFrom("get_best_move") /\ call.depth >= 1
    /\ nodes < TreeSize(call.board, call.depth) - 1
    /\ board = call.board

\* C4: for depth >= 1 get_best_move returns None iff the position has no
\* legal move, and otherwise returns one of the position's legal moves.
C4_NoneIffNoLegalMoves ==
    (ReturnedFrom("get_best_move") /\ call.depth >= 1) =>
        /\ (result.move = NoMove) <=> (RootMoves = {})
        /\ (result.move # NoMove) => (result.move \in RootMoves)

\* get_best_move returned None on a position without legal moves
C4_Witness ==
    /\ ReturnedFrom("get_best_move") /\ call.depth >= 1
    /\ RootMoves = {}
    /\ result.move = NoMove

\* the value a return statement hands to the caller, read in the next state
Delivered(value) ==
    IF Len(frames) = 1
    THEN result'.returned /\ result'.value = value
    ELSE frames'[Len(frames) - 1].pc = "pop" /\ frames'[Len(frames) - 1].eval = value

\* C5: a minimax invocation with depth == 0, or on a game-over position with
\* any depth, returns evaluate_board of that position and applies no move.
C5_TerminalReturnsEvaluate ==
    [][(AtMinimax("start") /\ (Top.depth = 0 \/ is_game_over(board))) =>
          /\ board' = board
          /\ nodes' = nodes
          /\ Len(frames') = Len(frames) - 1
          /\ Delivered(evaluate_board(board))]_vars

\* minimax returned the static evaluation of a game-over position that still
\* has legal moves, with depth remaining, having visited that node only
C5_Witness ==
    /\ ReturnedFrom("minimax") /\ call.depth >= 1
    /\ is_game_over(call.board) /\ RootMoves # {}
    /\ result.value = evaluate_board(call.board)
    /\ nodes = 1

EarliestBest ==
    LET best == Extreme(call.board.turn, {RootSearchValue(m) : m \in RootMoves})
        order == legal_moves(call.board)
        first == CHOOSE i \in 1..Len(order) :
                    /\ RootSearchValue(order[i]) = best
                    /\ \A j \in 1..(i - 1) : RootSearchValue(order[j]) # best
    IN  order[first]

\* C6: get_best_move returns the earliest move, in enumeration order, among
\* the root moves whose returned search value is the extreme one.
C6_TiesKeepEarliest ==
    (ReturnedFrom("get_best_move") /\ call.depth >= 1 /\ RootMoves # {}) =>
        result.move = EarliestBest

\* get_best_move returned the earlier of at least two moves tied for the best
C6_Witness ==
    /\ ReturnedFrom("get_best_move") /\ call.depth >= 1 /\ RootMoves # {}
    /\ result.move = EarliestBest
    /\ \E m \in RootMoves :
          /\ m # result.move
          /\ RootSearchValue(m) = RootSearchValue(result.move)

\* C7: in every minimax invocation reached from get_best_move the maximizing
\* flag is true exactly when White is to move in the position at that node.
C7_FlagMatchesSideToMove ==
    (call.fn = "get_best_move" /\ AtMinimax("start")) =>
        (Top.is_maximizing <=> (board.turn = WHITE))

\* C8: the depth-remaining argument of every nested minimax invocation is a
\* non-negative integer (get_best_move and minimax called with depth >= 0).
C8_DepthNeverNegative ==
    \A k \in 1..Len(frames) :
        frames[k].fn = "minimax" => frames[k].depth >= 0

InStep(f) == f.pc \in {"wait", "pop"}

RECURSIVE AppliedBy(_)
AppliedBy(fs) ==
    IF fs = <<>> THEN <<>>
    ELSE (IF InStep(fs[1]) THEN <<CurMove(fs[1])>> ELSE <<>>) \o AppliedBy(Tail(fs))

Mirrors ==
    /\ board.move_stack = AppliedBy(frames)
    /\ \A k \in 1..(Len(frames) - 1) : frames[k].pc = "wait"

\* C9: the moves applied and not yet undone are exactly the moves chosen by
\* the active frames, outermost first; every pop removes the move the same
\* frame pushed, and no frame returns with its own move still applied.
C9_StackDiscipline ==
    [][/\ Mirrors /\ Mirrors'
       /\ (Len(board'.move_stack) < Len(board.move_stack)) =>
             /\ frames # <<>> /\ Top.pc = "pop"
             /\ board.move_stack[Len(board.move_stack)] = CurMove(Top)
             /\ board'.cells = board.state_stack[Len(board.state_stack)].cells
             /\ board'.turn = board.state_stack[Len(board.state_stack)].turn
       /\ (Len(frames') < Len(frames)) =>
             /\ ~InStep(Top)
             /\ Len(board.move_stack) = Len(frames) - 1]_vars

\* three nested frames, the innermost leaving its loop through the cutoff
\* with siblings unexplored, two moves applied
C9_Witness ==
    /\ Len(frames) = 3
    /\ Top.pc = "break" /\ Top.i < Len(Top.legal_moves)
    /\ Len(board.move_stack) = 2
    /\ Mirrors

EnteredOpen(f) == f.fn = "minimax" /\ f.alpha_in < f.beta_in

\* C10: in a minimax invocation entered with alpha < beta, alpha < beta holds
\* whenever a move is applied and a child invoked; alpha is the maximum of its
\* entry value and the running best (beta the minimum); the loop is left as
\* soon as beta <= alpha.
C10_WindowOpenWhileExploring ==
    \A k \in 1..Len(frames) :
        LET f == frames[k] IN
        (EnteredOpen(f) /\ f.pc # "start") =>
            /\ (f.pc \in {"wait", "pop"}) => f.alpha < f.beta
            /\ (f.pc = "loop") => f.alpha < f.beta
            /\ (f.pc = "break") => f.beta <= f.alpha
            /\ f.is_maximizing =>
                  (f.alpha = Max(f.alpha_in, f.best_eval) /\ f.beta = f.beta_in)
            /\ ~f.is_maximizing =>
                  (f.beta = Min(f.beta_in, f.best_eval) /\ f.alpha = f.alpha_in)
            /\ (k < Len(frames)) => EnteredOpen(frames[k + 1])

\* a maximizing frame entered with an open window has raised alpha above its
\* entry value and is exploring a further sibling
C10_Witness ==
    \E k \in 1..Len(frames) :
        /\ EnteredOpen(frames[k]) /\ frames[k].is_maximizing
        /\ frames[k].pc = "wait" /\ frames[k].i > 1
        /\ frames[k].alpha > frames[k].alpha_in
        /\ frames[k].alpha < frames[k].beta
====
